---- MODULE Spec2Model ----
(***************************************************************************)
(* Job queue (src/mcp_server/job_queue.py) and printing worker             *)
(* (src/printing_service/printer.py) of the task printer service.          *)
(*                                                                         *)
(* The store is the SQLite table print_jobs.  Every row carries the         *)
(* discrete columns (status, retry_count, ...) and, next to them, the      *)
(* serialized copy of the job in the column job_data.  Queries that select *)
(* or filter (get_next_job, cleanup_old_jobs, get_queue_stats) read the    *)
(* columns; get_next_job's result and get_job_status read job_data.        *)
(*                                                                         *)
(* The producers (server processes) and the worker are separate processes: *)
(* every call of the queue is one transaction, and the calls of different  *)
(* processes interleave.  JobQueue.lock is a lock of one process; the one  *)
(* modelled is that of the worker process.                                 *)
(*                                                                         *)
(* Time is counted in days.  Optional values are <<>> (None) or <<v>>.     *)
(***************************************************************************)
EXTENDS Integers, Sequences, FiniteSets, TLC

(* ---- bounds of the model ---- *)
MaxJobs == 3
MaxClock == 8
MaxClientJobs == 2
MaxHealthJobs == 1
MaxProducers == 2
MaxSharedJobs == 2

(* ---- program constants ---- *)
max_retries == 3
cleanup_days == 7
cleanup_interval == 1
max_batch == 10

JobIds == 1..MaxJobs

JobStatus == {"pending", "processing", "completed", "failed", "retry"}

\* the priorities a caller can submit: the three known ones and one that is
\* none of them (server.py stores the caller's string unchecked)
Priorities == {"high", "medium", "low", "asap"}

None == <<>>
Some(v) == <<v>>

\* the categories of models.py, and one that is none of them
Categories == {"work", "personal", "urgent", "learning", "health", "other"}

\* mutant: the submitted value is ignored, the default is always taken
GetDefaultOnly(data, key, default) == default

\* dict.get(key, default) on the submitted data: a key that is absent is
\* no field or None here, a key that is present is Some(value)
Get(data, key, default) ==
    IF key \notin DOMAIN data \/ data[key] = None THEN default
    ELSE data[key][1]

\* a datetime object for the time t, and the empty string, as values of an
\* attribute that may also be None
DT(t) == <<"datetime", t>>
EmptyStr == <<"str", "">>

\* Python's truth value of such an attribute
Truthy(v) == v # None /\ v # EmptyStr

\* datetime.isoformat: the text that stands for the time of dt (texts of
\* times are Some(t), as in the columns)
isoformat(dt) == Some(dt[2])

\* datetime.fromisoformat
fromisoformat(text) == DT(text[1])

VARIABLES
    rows,          \* job_id -> row of print_jobs (columns + job_data)
    next_id,       \* number of job ids handed out so far
    clock,         \* datetime.now(), in days
    pc,            \* position of the worker in start/_process_next_job
    job,           \* the worker's local variable job (a job_id, 0 = none)
    lock,          \* holder of the worker process's JobQueue.lock
    retry_ok,      \* result of the worker's last increment_retry_count
    last_cleanup,  \* ServiceManager.last_cleanup
    attempts,      \* job_id -> number of print_task_card calls (history)
    fails,         \* job_id -> number of those that returned False (history)
    printed,       \* job_id -> TRUE once print_task_card returned True (history)
    deleted,       \* the count the last cleanup_old_jobs returned
    last_call,     \* the last call a server process or client has finished
    server_lock,   \* holder of that process's JobQueue.lock
    batch,         \* the queue_print_tasks call in progress, if any
    txn,           \* the open sqlite transaction of a client, if any
    health,        \* position of ServiceManager._health_monitor
    codec,         \* a PrintJob taken through to_dict and from_dict
    producers,     \* producer -> its add_job call in progress, if any
    writer,        \* the connection that holds SQLite's write lock
    worker2,       \* a second PrintingService on the same database
    running,       \* PrintingService.running
    stats          \* a get_queue_stats call in progress, if any

\* the state of a server process (or of a client of the queue)
server_vars == <<last_call, server_lock, batch>>

\* the state of the printing service
service_vars == <<pc, job, lock, retry_ok, last_cleanup,
                  attempts, fails, printed, deleted>>

\* state that only some of the specifications below move
aux_vars == <<txn, health, codec, producers, writer, worker2, running, stats>>

\* the part of it that belongs to the store's other users and to shutdown
ext_vars == <<producers, writer, worker2, running, stats>>

vars == <<rows, next_id, clock, pc, job, lock, retry_ok, last_cleanup,
          attempts, fails, printed, deleted, last_call, server_lock, batch,
          txn, health, codec, producers, writer, worker2, running, stats>>

(* ---- PrintJob ---- *)

\* PrintJob.__init__: a fresh job built from the submitted data
PrintJob(data, now) ==
    [ title         |-> Get(data, "title", "Untitled Task"),
      priority      |-> Get(data, "priority", "medium"),
      category      |-> Get(data, "category", "other"),
      description   |-> Get(data, "description", ""),
      estimated_time |-> Get(data, "estimated_time", ""),
      due_date      |-> Get(data, "due_date", None),
      created_at    |-> now,
      status        |-> "pending",
      retry_count   |-> 0,
      max_retries   |-> max_retries,
      error_message |-> None,
      processed_at  |-> None ]

\* PrintJob.to_dict: the serialized copy stored in job_data
to_dict(j) ==
    [ title         |-> j.title,
      description   |-> Some(j.description),
      priority      |-> j.priority,
      category      |-> j.category,
      estimated_time |-> Some(j.estimated_time),
      due_date      |-> IF Truthy(j.due_date) THEN isoformat(j.due_date)
                        ELSE None,
      created_at    |-> isoformat(DT(j.created_at)),
      status        |-> j.status,
      retry_count   |-> j.retry_count,
      max_retries   |-> j.max_retries,
      error_message |-> j.error_message,
      processed_at  |-> IF Truthy(j.processed_at)
                        THEN isoformat(j.processed_at) ELSE None ]

\* PrintJob.from_dict: the constructor on the persisted dict, then the
\* fields the constructor does not take from it
from_dict(d) ==
    [ title         |-> d.title,
      description   |-> Get(d, "description", ""),
      priority      |-> d.priority,
      category      |-> d.category,
      estimated_time |-> Get(d, "estimated_time", ""),
      due_date      |-> IF d.due_date # None THEN fromisoformat(d.due_date)
                        ELSE None,
      created_at    |-> fromisoformat(d.created_at)[2],
      status        |-> d.status,
      retry_count   |-> d.retry_count,
      max_retries   |-> d.max_retries,
      error_message |-> d.error_message,
      processed_at  |-> IF d.processed_at # None
                        THEN fromisoformat(d.processed_at) ELSE None ]

\* the row add_job inserts: the columns and the serialized copy
NewRow(j) ==
    [ title         |-> j.title,
      description   |-> j.description,
      priority      |-> j.priority,
      category      |-> j.category,
      estimated_time |-> j.estimated_time,
      due_date      |-> IF Truthy(j.due_date) THEN isoformat(j.due_date)
                        ELSE None,
      created_at    |-> j.created_at,
      status        |-> j.status,
      retry_count   |-> j.retry_count,
      max_retries   |-> j.max_retries,
      error_message |-> j.error_message,
      processed_at  |-> IF Truthy(j.processed_at)
                        THEN isoformat(j.processed_at) ELSE None,
      job_data      |-> to_dict(j) ]

(* ---- JobQueue: queries ---- *)

\* mutant: a priority that is not listed is ranked like the default, medium
priority_order_unlisted_as_medium(p) ==
    CASE p = "high"   -> 3
      [] p = "low"    -> 1
      [] OTHER        -> 2

\* CASE priority WHEN 'high' THEN 3 WHEN 'medium' THEN 2 WHEN 'low' THEN 1 ELSE 0
priority_order(p) ==
    CASE p = "high"   -> 3
      [] p = "medium" -> 2
      [] p = "low"    -> 1
      [] OTHER        -> 0

\* mutant: WHERE status != 'processing'
EligibleNotProcessing(rs) == {i \in DOMAIN rs : rs[i].status # "processing"}

\* mutant: jobs left in processing are taken up again
EligibleWithProcessing(rs) ==
    {i \in DOMAIN rs : rs[i].status \in {"pending", "retry", "processing"}}

\* WHERE status IN ('pending', 'retry')
Eligible(rs) == {i \in DOMAIN rs : rs[i].status \in {"pending", "retry"}}

\* mutant: ORDER BY priority_order ASC
OrderedBeforePriorityAsc(rs, a, b) ==
    \/ priority_order(rs[a].priority) < priority_order(rs[b].priority)
    \/ /\ priority_order(rs[a].priority) = priority_order(rs[b].priority)
       /\ rs[a].created_at <= rs[b].created_at

\* mutant: ORDER BY ..., created_at DESC
OrderedBeforeCreatedDesc(rs, a, b) ==
    \/ priority_order(rs[a].priority) > priority_order(rs[b].priority)
    \/ /\ priority_order(rs[a].priority) = priority_order(rs[b].priority)
       /\ rs[a].created_at >= rs[b].created_at

\* ORDER BY priority_order DESC, created_at ASC: a goes before b
OrderedBefore(rs, a, b) ==
    \/ priority_order(rs[a].priority) > priority_order(rs[b].priority)
    \/ /\ priority_order(rs[a].priority) = priority_order(rs[b].priority)
       /\ rs[a].created_at <= rs[b].created_at

\* get_next_job: the rows LIMIT 1 can return (rows with equal keys are in
\* no defined order); empty when the method returns None
get_next_job(rs) ==
    {i \in Eligible(rs) : \A k \in Eligible(rs) : OrderedBefore(rs, i, k)}

\* get_job_status: the serialized copy of the job, None when there is no row
get_job_status(rs, i) ==
    IF i \in DOMAIN rs THEN Some(rs[i].job_data) ELSE None

(* ---- JobQueue: updates ---- *)

\* mutant: processed_at is stamped for every status
update_job_status_always_stamped(rs, i, status, error_message, now) ==
    IF i \notin DOMAIN rs THEN rs
    ELSE [rs EXCEPT ![i].status = status,
                    ![i].error_message = error_message,
                    ![i].processed_at = Some(now),
                    ![i].job_data.status = status,
                    ![i].job_data.error_message = error_message,
                    ![i].job_data.processed_at = Some(now)]

\* mutant: retry_count is reset along with the status
update_job_status_resets_retries(rs, i, status, error_message, now) ==
    LET processed_at == IF status \in {"completed", "failed"}
                        THEN Some(now) ELSE None
    IN  IF i \notin DOMAIN rs THEN rs
        ELSE [rs EXCEPT ![i].status = status,
                        ![i].error_message = error_message,
                        ![i].processed_at = processed_at,
                        ![i].retry_count = 0,
                        ![i].job_data.status = status,
                        ![i].job_data.error_message = error_message,
                        ![i].job_data.processed_at = processed_at]

\* mutant: an error text is kept when the call gives none
update_job_status_keeps_error(rs, i, status, error_message, now) ==
    LET processed_at == IF status \in {"completed", "failed"}
                        THEN Some(now) ELSE None
    IN  IF i \notin DOMAIN rs THEN rs
        ELSE [rs EXCEPT ![i].status = status,
                        ![i].error_message =
                            IF error_message = None THEN @ ELSE error_message,
                        ![i].processed_at = processed_at,
                        ![i].job_data.status = status,
                        ![i].job_data.error_message =
                            IF error_message = None THEN @ ELSE error_message,
                        ![i].job_data.processed_at = processed_at]

\* mutant: a missing row is created (an upsert)
update_job_status_upsert(rs, i, status, error_message, now) ==
    IF i \notin DOMAIN rs
    THEN i :> [NewRow(PrintJob([title |-> None, priority |-> None,
                                category |-> None], now))
                  EXCEPT !.status = status, !.job_data.status = status]
            @@ rs
    ELSE [rs EXCEPT ![i].status = status,
                    ![i].error_message = error_message,
                    ![i].job_data.status = status,
                    ![i].job_data.error_message = error_message]

\* update_job_status: both UPDATEs of the transaction; no row, no change
update_job_status(rs, i, status, error_message, now) ==
    LET processed_at == IF status \in {"completed", "failed"}
                        THEN Some(now) ELSE None
    IN  IF i \notin DOMAIN rs THEN rs
        ELSE [rs EXCEPT ![i].status = status,
                        ![i].error_message = error_message,
                        ![i].processed_at = processed_at,
                        ![i].job_data.status = status,
                        ![i].job_data.error_message = error_message,
                        ![i].job_data.processed_at = processed_at]

\* mutant: the old count is compared, one retry too many is granted
RetryAllowedOldCount(retry_count, maxr) == retry_count <= maxr

\* mutant: strict comparison, one retry too few is granted
RetryAllowedStrict(retry_count, maxr) == retry_count + 1 < maxr

\* increment_retry_count, the test of line 204
RetryAllowed(retry_count, maxr) == retry_count + 1 <= maxr

\* mutant: the UPDATE clears the error text as well
SetRetryClearsError(rs, i) ==
    [rs EXCEPT ![i].retry_count = rs[i].retry_count + 1,
               ![i].status = "retry",
               ![i].error_message = None]

\* mutant: the UPDATE sets retry_count only
SetRetryCountOnly(rs, i) ==
    [rs EXCEPT ![i].retry_count = rs[i].retry_count + 1]

\* increment_retry_count, the UPDATE of the retry branch (columns only)
SetRetry(rs, i) ==
    [rs EXCEPT ![i].retry_count = rs[i].retry_count + 1,
               ![i].status = "retry"]

\* mutant: created_at <= cutoff
CleanupSetInclusive(rs, now, days) ==
    {i \in DOMAIN rs : /\ rs[i].status \in {"completed", "failed"}
                       /\ rs[i].created_at <= now - days}

\* cleanup_old_jobs: the rows the DELETE removes
CleanupSet(rs, now, days) ==
    {i \in DOMAIN rs : /\ rs[i].status \in {"completed", "failed"}
                       /\ rs[i].created_at < now - days}

cleanup_old_jobs(rs, now, days) ==
    [i \in (DOMAIN rs) \ CleanupSet(rs, now, days) |-> rs[i]]

\* INSERT OR REPLACE: a second row of one job_id overwrites the first
InsertOrReplace(rs, id, j) == id :> NewRow(j) @@ rs

\* INSERT INTO print_jobs: the PRIMARY KEY refuses a second row of one
\* job_id (sqlite3.IntegrityError, the transaction is rolled back)
Insert(rs, id, j) == IF id \in DOMAIN rs THEN rs ELSE id :> NewRow(j) @@ rs

(* ---- calls of the server processes ---- *)

\* what a request can carry under a key: nothing, a listed value, an
\* unlisted value
Arguments ==
    [title    : {None, Some("Buy milk")},
     priority : {None, Some("high"), Some("asap")},
     category : {None, Some("work"), Some("fun")}]

\* an item of a batch that is not a dict
NotADict == [title |-> Some("a string"), priority |-> None, category |-> None]

\* the items the model puts into batches
BatchItems ==
    {[title |-> Some("Buy milk"), priority |-> Some("high"), category |-> None],
     [title |-> None, priority |-> Some("asap"), category |-> Some("fun")],
     NotADict}

\* a list of n equal items
Repeat(x, n) == [k \in 1..n |-> x]

\* the lists of at most n batch items, and one list longer than the limit
Batches(n) ==
    UNION {[1..k -> BatchItems] : k \in 0..n}
        \cup {Repeat([title |-> Some("Buy milk"), priority |-> None,
                      category |-> None], max_batch + 1)}

\* the batch limit taken one too high
BatchRejectedOffByOne(tasks) ==
    IF tasks = <<>> THEN "no_tasks"
    ELSE IF Len(tasks) > max_batch + 1 THEN "too_many" ELSE "none"

\* queue_print_tasks: if not tasks / if len(tasks) > 10
BatchRejected(tasks) ==
    IF tasks = <<>> THEN "no_tasks"
    ELSE IF Len(tasks) > max_batch THEN "too_many" ELSE "none"

\* fastmcp queue_print_task: the parameter defaults and the two validations
fastmcp_job_data(args) ==
    [title    |-> args.title,
     priority |-> LET p == Get(args, "priority", "medium")
                  IN  Some(IF p \in {"high", "medium", "low"} THEN p
                           ELSE "medium"),
     category |-> LET c == Get(args, "category", "other")
                  IN  Some(IF c \in Categories THEN c ELSE "other")]

\* fastmcp queue_print_tasks: task_data.setdefault for priority and category
fastmcp_setdefault(item) ==
    [title    |-> item.title,
     priority |-> Some(Get(item, "priority", "medium")),
     category |-> Some(Get(item, "category", "other"))]

\* submitted data with no key at all
NoArgs == [title |-> None, priority |-> None, category |-> None]

\* no call has finished yet
NoCall == [op |-> "none", front |-> "none", args |-> NoArgs, n |-> 0,
           reply |-> "none", job_ids |-> <<>>]

\* no queue_print_tasks call is in progress
NoBatch == [front |-> "none", tasks |-> <<>>, job_ids |-> <<>>]

\* no transaction is open
NoTxn == [op |-> "none"]

\* no PrintJob is being serialized
NoCodec == [stage |-> "none"]

\* the server processes that insert at the same time, each with a JobQueue
\* object, a lock and database connections of its own
Producers == 1..MaxProducers

\* a producer with no add_job call in progress
NoProducer == [stage |-> "idle", job_id |-> 0, job |-> <<>>, pages |-> <<>>]

\* no get_queue_stats call is in progress
NoStats == [stage |-> "none"]

\* mutant: SQLite lets a connection write while another one is writing
CanWriteAlways(w) == TRUE

\* SQLite gives its write lock to one connection at a time; a second
\* connection that wants to write waits until the first has committed
CanWrite(w) == w = 0

(* ---- initial state: a fresh database, the service just started ---- *)
Init ==
    /\ rows = <<>>
    /\ next_id = 0
    /\ clock = 0
    /\ pc = "poll"
    /\ job = 0
    /\ lock = "free"
    /\ retry_ok = "none"
    /\ last_cleanup = 0
    /\ attempts = [i \in JobIds |-> 0]
    /\ fails = [i \in JobIds |-> 0]
    /\ printed = [i \in JobIds |-> FALSE]
    /\ deleted = 0
    /\ last_call = NoCall
    /\ server_lock = "free"
    /\ batch = NoBatch
    /\ txn = NoTxn
    /\ health = "ready"
    /\ codec = NoCodec
    /\ producers = [p \in Producers |-> NoProducer]
    /\ writer = 0
    /\ worker2 = [pc |-> "poll", job |-> 0]
    /\ running = TRUE
    /\ stats = NoStats

(* ---- environment ---- *)

\* the data of a task submitted with a title and a priority
Task(p) == [title |-> Some("Buy milk"), priority |-> Some(p), category |-> None]

\* time passes; the model's clock advances by the retention window (a job
\* of the step before is then exactly at the cutoff) or by one day more (it
\* is then older than the cutoff)
Tick ==
    /\ \E d \in {cleanup_days, cleanup_days + 1} :
          /\ clock + d <= MaxClock
          /\ clock' = clock + d
    /\ UNCHANGED <<rows, next_id, pc, job, lock, retry_ok, last_cleanup,
                   attempts, fails, printed, deleted>>
    /\ UNCHANGED server_vars
    /\ UNCHANGED aux_vars

\* a producer (server process): job = PrintJob(arguments); add_job(job)
add_job ==
    /\ next_id < MaxJobs
    /\ \E p \in Priorities :
          rows' = (next_id + 1) :> NewRow(PrintJob(Task(p), clock)) @@ rows
    /\ next_id' = next_id + 1
    /\ UNCHANGED <<clock, pc, job, lock, retry_ok, last_cleanup,
                   attempts, fails, printed, deleted>>
    /\ UNCHANGED server_vars
    /\ UNCHANGED aux_vars

(* ---- producers in processes of their own, and SQLite's write lock ---- *)

\* job = PrintJob(arguments): the job object with its new job_id; the
\* first producer submits high-priority tasks, the others low-priority ones
producer_new(p) ==
    /\ producers[p].stage = "idle"
    /\ next_id < MaxJobs
    /\ producers' = [producers EXCEPT ![p] =
                        [stage |-> "built", job_id |-> next_id + 1,
                         job |-> PrintJob(Task(IF p = 1 THEN "high" ELSE "low"),
                                          clock),
                         pages |-> <<>>]]
    /\ next_id' = next_id + 1
    /\ UNCHANGED <<rows, clock, writer, worker2, running, stats>>
    /\ UNCHANGED <<txn, health, codec>>
    /\ UNCHANGED service_vars
    /\ UNCHANGED server_vars

\* add_job: conn.execute(INSERT ...) opens the connection's transaction,
\* takes the write lock and puts the row into the transaction's copy of the
\* table, which no other connection sees
producer_insert(p) ==
    /\ producers[p].stage = "built"
    /\ CanWrite(writer)
    /\ writer' = p
    /\ producers' = [producers EXCEPT ![p].stage = "inserted",
                                      ![p].pages = Insert(rows, producers[p].job_id,
                                                          producers[p].job)]
    /\ UNCHANGED <<rows, next_id, clock, worker2, running, stats>>
    /\ UNCHANGED <<txn, health, codec>>
    /\ UNCHANGED service_vars
    /\ UNCHANGED server_vars

\* add_job: conn.commit() makes the transaction's copy the table and frees
\* the write lock; the call returns the job_id
producer_commit(p) ==
    /\ producers[p].stage = "inserted"
    /\ rows' = producers[p].pages
    /\ writer' = 0
    /\ producers' = [producers EXCEPT ![p] = NoProducer]
    /\ UNCHANGED <<next_id, clock, worker2, running, stats>>
    /\ UNCHANGED <<txn, health, codec>>
    /\ UNCHANGED service_vars
    /\ UNCHANGED server_vars

(* ---- the tool handlers of the server processes ---- *)

\* server.py, http_server.py, mcp_http_server.py: _queue_print_task.
\* The job is built from the arguments as they came and inserted; the reply
\* is formatted afterwards and reads arguments['title'], so a request with
\* no title raises KeyError after the insert and is answered as a failure.
server_queue_print_task ==
    /\ batch = NoBatch
    /\ server_lock = "free"
    /\ next_id < MaxJobs
    /\ \E args \in Arguments :
          /\ rows' = Insert(rows, next_id + 1, PrintJob(args, clock))
          /\ last_call' = [op |-> "queue_print_task", front |-> "server",
                           args |-> args, n |-> 1,
                           reply |-> IF args.title = None THEN "failed"
                                     ELSE "queued",
                           job_ids |-> <<next_id + 1>>]
    /\ next_id' = next_id + 1
    /\ UNCHANGED <<clock, server_lock, batch>>
    /\ UNCHANGED service_vars
    /\ UNCHANGED aux_vars

\* fastmcp_server.py: queue_print_task. title is a required parameter (the
\* call fails before the body runs without it); unlisted priority and
\* category are replaced before the job is built.
fastmcp_queue_print_task ==
    /\ batch = NoBatch
    /\ server_lock = "free"
    /\ \E args \in Arguments :
          IF args.title = None
          THEN /\ last_call' = [op |-> "queue_print_task",
                                front |-> "fastmcp", args |-> args, n |-> 1,
                                reply |-> "rejected", job_ids |-> <<>>]
               /\ UNCHANGED <<rows, next_id>>
          ELSE /\ next_id < MaxJobs
               /\ rows' = Insert(rows, next_id + 1,
                                 PrintJob(fastmcp_job_data(args), clock))
               /\ next_id' = next_id + 1
               /\ last_call' = [op |-> "queue_print_task",
                                front |-> "fastmcp", args |-> args, n |-> 1,
                                reply |-> "queued",
                                job_ids |-> <<next_id + 1>>]
    /\ UNCHANGED <<clock, server_lock, batch>>
    /\ UNCHANGED service_vars
    /\ UNCHANGED aux_vars

\* _queue_print_tasks / queue_print_tasks up to the loop: the two checks
\* on the list, made before anything is built or inserted
queue_print_tasks(front) ==
    /\ batch = NoBatch
    /\ server_lock = "free"
    /\ \E tasks \in Batches(MaxJobs - next_id) :
          LET rejected == BatchRejected(tasks)
          IN  /\ last_call' = [op |-> "queue_print_tasks", front |-> front,
                               args |-> NoArgs, n |-> Len(tasks),
                               reply |-> IF rejected = "none" THEN "running"
                                         ELSE rejected,
                               job_ids |-> <<>>]
              /\ batch' = IF rejected = "none"
                          THEN [front |-> front, tasks |-> tasks,
                                job_ids |-> <<>>]
                          ELSE NoBatch
    /\ UNCHANGED <<rows, next_id, clock, server_lock>>
    /\ UNCHANGED service_vars
    /\ UNCHANGED aux_vars

\* one turn of the loop over the tasks: each item is built and inserted in
\* a transaction of its own. An item that is not a dict is skipped by
\* fastmcp_server.py and ends the other handlers with an AttributeError
\* (task_data.get), after the items before it were inserted.
queue_print_tasks_item ==
    /\ batch # NoBatch
    /\ batch.tasks # <<>>
    /\ LET item == Head(batch.tasks)
       IN  IF item = NotADict
           THEN /\ IF batch.front = "fastmcp"
                   THEN /\ batch' = [batch EXCEPT !.tasks = Tail(@)]
                        /\ UNCHANGED last_call
                   ELSE /\ batch' = NoBatch
                        /\ last_call' = [last_call EXCEPT
                                             !.reply = "failed",
                                             !.job_ids = batch.job_ids]
                /\ UNCHANGED <<rows, next_id>>
           ELSE /\ next_id < MaxJobs
                /\ rows' = Insert(rows, next_id + 1,
                                  PrintJob(IF batch.front = "fastmcp"
                                           THEN fastmcp_setdefault(item)
                                           ELSE item, clock))
                /\ next_id' = next_id + 1
                /\ batch' = [batch EXCEPT
                                 !.tasks = Tail(@),
                                 !.job_ids = Append(@, next_id + 1)]
                /\ UNCHANGED last_call
    /\ UNCHANGED <<clock, server_lock>>
    /\ UNCHANGED service_vars
    /\ UNCHANGED aux_vars

\* the loop is over: the reply counts the jobs queued
queue_print_tasks_return ==
    /\ batch # NoBatch
    /\ batch.tasks = <<>>
    /\ last_call' = [last_call EXCEPT !.reply = "queued",
                                      !.job_ids = batch.job_ids]
    /\ batch' = NoBatch
    /\ UNCHANGED <<rows, next_id, clock, server_lock>>
    /\ UNCHANGED service_vars
    /\ UNCHANGED aux_vars

(* ---- a client of JobQueue that calls it with job ids of its choice ---- *)

\* the reply of a JobQueue method to the client
Returned(op, i, n, reply) ==
    [op |-> op, front |-> "client", args |-> NoArgs, n |-> n,
     reply |-> reply, job_ids |-> <<i>>]

\* add_job(job) with a new job or with a second PrintJob object that
\* carries the job_id of a stored one
client_add_job ==
    /\ batch = NoBatch
    /\ server_lock = "free"
    /\ \E i \in DOMAIN rows \cup {next_id + 1} :
          /\ i <= MaxClientJobs
          /\ rows' = Insert(rows, i, PrintJob(Task("high"), clock))
          /\ next_id' = IF i \in DOMAIN rows THEN next_id ELSE i
          /\ last_call' = Returned("add_job", i, 1,
                                   IF i \in DOMAIN rows
                                   THEN "IntegrityError" ELSE "ok")
    /\ UNCHANGED <<clock, server_lock, batch>>
    /\ UNCHANGED service_vars
    /\ UNCHANGED aux_vars

\* update_job_status(job_id, status, error_message) with any job id; an
\* error text goes with RETRY and FAILED only, as in the callers
client_update_job_status ==
    /\ batch = NoBatch
    /\ server_lock = "free"
    /\ \E i \in JobIds, status \in JobStatus,
          error_message \in {None, Some("paper jam")} :
          /\ error_message # None => status \in {"retry", "failed"}
          /\ rows' = update_job_status(rows, i, status, error_message, clock)
          /\ last_call' = [Returned("update_job_status", i, 1, "ok")
                             EXCEPT !.args = [status |-> status,
                                              error_message |-> error_message]]
    /\ UNCHANGED <<next_id, clock, server_lock, batch>>
    /\ UNCHANGED service_vars
    /\ UNCHANGED aux_vars

\* increment_retry_count(job_id) with any job id; in the branch that calls
\* update_job_status the call never returns and the lock stays held
client_increment_retry_count ==
    /\ batch = NoBatch
    /\ server_lock = "free"
    /\ \E i \in JobIds :
          IF i \notin DOMAIN rows
          THEN /\ last_call' = Returned("increment_retry_count", i, 1,
                                        "False")
               /\ UNCHANGED <<rows, server_lock>>
          ELSE IF RetryAllowed(rows[i].retry_count, rows[i].max_retries)
          THEN /\ rows' = SetRetry(rows, i)
               /\ last_call' = Returned("increment_retry_count", i, 1,
                                        "True")
               /\ UNCHANGED server_lock
          ELSE /\ server_lock' = "held"
               /\ UNCHANGED <<rows, last_call>>
    /\ UNCHANGED <<next_id, clock, batch>>
    /\ UNCHANGED service_vars
    /\ UNCHANGED aux_vars

\* get_next_job(); n tells a call that follows another get_next_job from
\* one that follows a different call
client_get_next_job ==
    /\ batch = NoBatch
    /\ server_lock = "free"
    /\ \E i \in (IF get_next_job(rows) = {} THEN {0} ELSE get_next_job(rows)) :
          last_call' = Returned("get_next_job", i,
                                IF last_call.op = "get_next_job" THEN 2 ELSE 1,
                                IF i = 0 THEN "None" ELSE "job")
    /\ UNCHANGED <<rows, next_id, clock, server_lock, batch>>
    /\ UNCHANGED service_vars
    /\ UNCHANGED aux_vars

\* cleanup_old_jobs() with the default retention
client_cleanup_old_jobs ==
    /\ batch = NoBatch
    /\ server_lock = "free"
    /\ rows' = cleanup_old_jobs(rows, clock, cleanup_days)
    /\ last_call' = Returned("cleanup_old_jobs", 0,
                             Cardinality(CleanupSet(rows, clock,
                                                    cleanup_days)), "ok")
    /\ UNCHANGED <<next_id, clock, server_lock, batch>>
    /\ UNCHANGED service_vars
    /\ UNCHANGED aux_vars

(* ---- the worker: PrintingService.start / _process_next_job ---- *)

\* job = self.job_queue.get_next_job(); if not job: return
WorkerGetNext ==
    /\ pc = "poll"
    /\ lock = "free"
    /\ IF get_next_job(rows) = {}
       THEN /\ pc' = "sleep"
            /\ job' = 0
       ELSE /\ \E i \in get_next_job(rows) : job' = i
            /\ pc' = "mark"
    /\ UNCHANGED <<rows, next_id, clock, lock, retry_ok, last_cleanup,
                   attempts, fails, printed, deleted>>
    /\ UNCHANGED server_vars
    /\ UNCHANGED aux_vars

\* self.job_queue.update_job_status(job.job_id, JobStatus.PROCESSING)
WorkerMarkProcessing ==
    /\ pc = "mark"
    /\ lock = "free"
    /\ rows' = update_job_status(rows, job, "processing", None, clock)
    /\ pc' = "print"
    /\ UNCHANGED <<next_id, clock, job, lock, retry_ok, last_cleanup,
                   attempts, fails, printed, deleted>>
    /\ UNCHANGED server_vars
    /\ UNCHANGED aux_vars

\* mutant: the result of the collaborator is not looked at
AfterPrintAlwaysCompletes(success) == "complete"

\* if success: update_job_status(COMPLETED) else: increment_retry_count
AfterPrint(success) == IF success THEN "complete" ELSE "retry"

\* success = await self.printer.print_task_card(job): the collaborator
\* returns True, or returns False (every exception inside it is caught and
\* turned into False, so the except branch of _process_next_job is entered
\* only when a call of the store raises; the store is taken not to raise)
WorkerPrint ==
    /\ pc = "print"
    /\ attempts' = [attempts EXCEPT ![job] = @ + 1]
    /\ \E success \in BOOLEAN :
          /\ pc' = AfterPrint(success)
          /\ IF success
             THEN /\ printed' = [printed EXCEPT ![job] = TRUE]
                  /\ fails' = fails
             ELSE /\ fails' = [fails EXCEPT ![job] = @ + 1]
                  /\ printed' = printed
    /\ UNCHANGED <<rows, next_id, clock, job, lock, retry_ok, last_cleanup,
                   deleted>>
    /\ UNCHANGED server_vars
    /\ UNCHANGED aux_vars

\* self.job_queue.update_job_status(job.job_id, JobStatus.COMPLETED)
WorkerComplete ==
    /\ pc = "complete"
    /\ lock = "free"
    /\ rows' = update_job_status(rows, job, "completed", None, clock)
    /\ pc' = "sleep"
    /\ UNCHANGED <<next_id, clock, job, lock, retry_ok, last_cleanup,
                   attempts, fails, printed, deleted>>
    /\ UNCHANGED server_vars
    /\ UNCHANGED aux_vars

\* self.job_queue.increment_retry_count(job.job_id), called with the result
\* False of the collaborator.  In the else branch the method calls
\* update_job_status while it holds self.lock, a threading.Lock: the call
\* waits for the lock its own caller holds, and nothing has been written.
WorkerIncrementRetry ==
    /\ pc = "retry"
    /\ lock = "free"
    /\ IF job \notin DOMAIN rows
       THEN /\ retry_ok' = "false"
            /\ pc' = "sleep"
            /\ UNCHANGED <<rows, lock>>
       ELSE IF RetryAllowed(rows[job].retry_count, rows[job].max_retries)
       THEN /\ rows' = SetRetry(rows, job)
            /\ retry_ok' = "true"
            /\ pc' = "sleep"
            /\ UNCHANGED lock
       ELSE /\ lock' = "worker"
            /\ pc' = "blocked"
            /\ UNCHANGED <<rows, retry_ok>>
    /\ UNCHANGED <<next_id, clock, job, last_cleanup, attempts, fails, printed, deleted>>
    /\ UNCHANGED server_vars
    /\ UNCHANGED aux_vars

\* await asyncio.sleep(self.poll_interval), then while self.running: the
\* next round of the loop, or the end of start()
WorkerSleep ==
    /\ pc = "sleep"
    /\ pc' = IF running THEN "poll" ELSE "stopped"
    /\ job' = 0
    /\ retry_ok' = "none"
    /\ UNCHANGED <<rows, next_id, clock, lock, last_cleanup,
                   attempts, fails, printed, deleted>>
    /\ UNCHANGED server_vars
    /\ UNCHANGED aux_vars

(* ---- ServiceManager._health_monitor ---- *)

\* one round of the health loop in which the cleanup is due; it shares the
\* worker's event loop, so it runs only while the worker awaits (the
\* collaborator or its sleep).  A round in which no cleanup is due reads the
\* statistics and changes nothing.
HealthMonitor ==
    /\ pc \in {"print", "sleep"}
    /\ lock = "free"
    /\ clock - last_cleanup > cleanup_interval
    /\ rows' = cleanup_old_jobs(rows, clock, cleanup_days)
    /\ deleted' = Cardinality(CleanupSet(rows, clock, cleanup_days))
    /\ last_cleanup' = clock
    /\ UNCHANGED <<next_id, clock, pc, job, lock, retry_ok,
                   attempts, fails, printed>>
    /\ UNCHANGED server_vars
    /\ UNCHANGED aux_vars

\* mutant: no except clause, an exception ends the task
HealthAfterExceptionStops == "stopped"

\* except Exception: the error is logged, the round ends in sleep(60)
HealthAfterException == "sleep_err"

\* one round of the health loop, whatever is due: the cleanup when its
\* interval has passed, then the statistics, then sleep(300).  Either call
\* of the store may raise (sqlite3.Error); the except clause ends the round.
\* cleanup_old_jobs that raises has deleted nothing and last_cleanup is not
\* set; get_queue_stats that raises comes after both.
HealthRound ==
    /\ health = "ready"
    /\ pc \in {"print", "sleep"}
    /\ lock = "free"
    /\ LET due == clock - last_cleanup > cleanup_interval
       IN  \E outcome \in {"ok", "cleanup_raises", "stats_raises"} :
              LET cleaned == due /\ outcome # "cleanup_raises"
              IN  /\ outcome = "cleanup_raises" => due
                  /\ rows' = IF cleaned
                             THEN cleanup_old_jobs(rows, clock, cleanup_days)
                             ELSE rows
                  /\ deleted' = IF cleaned
                                THEN Cardinality(CleanupSet(rows, clock,
                                                            cleanup_days))
                                ELSE deleted
                  /\ last_cleanup' = IF cleaned THEN clock ELSE last_cleanup
                  /\ health' = IF outcome = "ok" THEN "sleep"
                               ELSE HealthAfterException
    /\ UNCHANGED <<next_id, clock, pc, job, lock, retry_ok,
                   attempts, fails, printed>>
    /\ UNCHANGED server_vars
    /\ UNCHANGED <<txn, codec, ext_vars>>

\* the sleep of the health loop is over
HealthWake ==
    /\ health \in {"sleep", "sleep_err"}
    /\ health' = "ready"
    /\ UNCHANGED <<rows, next_id, clock>>
    /\ UNCHANGED service_vars
    /\ UNCHANGED server_vars
    /\ UNCHANGED <<txn, codec, ext_vars>>

\* a producer that submits MaxHealthJobs jobs at most
add_job_few ==
    /\ next_id < MaxHealthJobs
    /\ add_job

Next ==
    \/ Tick
    \/ add_job
    \/ WorkerGetNext
    \/ WorkerMarkProcessing
    \/ WorkerPrint
    \/ WorkerComplete
    \/ WorkerIncrementRetry
    \/ WorkerSleep
    \/ HealthMonitor

Spec == Init /\ [][Next]_vars

\* the service with both of its loops
NextHealth ==
    \/ Tick
    \/ add_job_few
    \/ WorkerGetNext
    \/ WorkerMarkProcessing
    \/ WorkerPrint
    \/ WorkerComplete
    \/ WorkerIncrementRetry
    \/ WorkerSleep
    \/ HealthRound
    \/ HealthWake

SpecHealth == Init /\ [][NextHealth]_vars

\* the event loop runs every task that is ready: a step of the worker that
\* stays possible is taken, the health loop's sleep ends, and a round of
\* the health loop that is ready is run at one of the worker's awaits
SpecHealthLive ==
    /\ SpecHealth
    /\ WF_vars(WorkerGetNext)
    /\ WF_vars(WorkerMarkProcessing)
    /\ WF_vars(WorkerPrint)
    /\ WF_vars(WorkerComplete)
    /\ WF_vars(WorkerIncrementRetry)
    /\ WF_vars(WorkerSleep)
    /\ WF_vars(HealthWake)
    /\ SF_vars(HealthRound)

\* the writes of the service on a database that producers write too: each
\* is a transaction of its own and waits for SQLite's write lock
store_WorkerMarkProcessing == CanWrite(writer) /\ WorkerMarkProcessing

store_WorkerComplete == CanWrite(writer) /\ WorkerComplete

store_WorkerIncrementRetry == CanWrite(writer) /\ WorkerIncrementRetry

store_HealthMonitor == CanWrite(writer) /\ HealthMonitor

\* several producers, the worker and the cleanup on one database
NextProducers ==
    \/ Tick
    \/ \E p \in Producers : producer_new(p)
    \/ \E p \in Producers : producer_insert(p)
    \/ \E p \in Producers : producer_commit(p)
    \/ WorkerGetNext
    \/ store_WorkerMarkProcessing
    \/ WorkerPrint
    \/ store_WorkerComplete
    \/ store_WorkerIncrementRetry
    \/ WorkerSleep
    \/ store_HealthMonitor

SpecProducers == Init /\ [][NextProducers]_vars

(* ---- a second PrintingService on the same database ---- *)

\* mutant: get_next_job marks the row it returns as processing
AfterClaimMarked(rs, i) == [rs EXCEPT ![i].status = "processing",
                                      ![i].job_data.status = "processing"]

\* get_next_job is a SELECT: the row it returns is left as it is
AfterClaim(rs, i) == rs

\* the second worker: job = self.job_queue.get_next_job()
Worker2GetNext ==
    /\ worker2.pc = "poll"
    /\ IF get_next_job(rows) = {}
       THEN /\ worker2' = [pc |-> "sleep", job |-> 0]
            /\ rows' = rows
       ELSE \E i \in get_next_job(rows) :
               /\ worker2' = [pc |-> "mark", job |-> i]
               /\ rows' = AfterClaim(rows, i)
    /\ UNCHANGED <<next_id, clock, producers, writer, running, stats>>
    /\ UNCHANGED <<txn, health, codec>>
    /\ UNCHANGED service_vars
    /\ UNCHANGED server_vars

\* the second worker: update_job_status(job.job_id, JobStatus.PROCESSING)
Worker2MarkProcessing ==
    /\ worker2.pc = "mark"
    /\ rows' = update_job_status(rows, worker2.job, "processing", None, clock)
    /\ worker2' = [worker2 EXCEPT !.pc = "print"]
    /\ UNCHANGED <<next_id, clock, producers, writer, running, stats>>
    /\ UNCHANGED <<txn, health, codec>>
    /\ UNCHANGED service_vars
    /\ UNCHANGED server_vars

\* the second worker: success = await self.printer.print_task_card(job)
Worker2Print ==
    /\ worker2.pc = "print"
    /\ attempts' = [attempts EXCEPT ![worker2.job] = @ + 1]
    /\ \E success \in BOOLEAN :
          /\ worker2' = [worker2 EXCEPT !.pc = AfterPrint(success)]
          /\ IF success
             THEN /\ printed' = [printed EXCEPT ![worker2.job] = TRUE]
                  /\ fails' = fails
             ELSE /\ fails' = [fails EXCEPT ![worker2.job] = @ + 1]
                  /\ printed' = printed
    /\ UNCHANGED <<rows, next_id, clock, pc, job, lock, retry_ok, last_cleanup,
                   deleted>>
    /\ UNCHANGED <<producers, writer, running, stats>>
    /\ UNCHANGED <<txn, health, codec>>
    /\ UNCHANGED server_vars

\* the second worker: update_job_status(job.job_id, JobStatus.COMPLETED)
Worker2Complete ==
    /\ worker2.pc = "complete"
    /\ rows' = update_job_status(rows, worker2.job, "completed", None, clock)
    /\ worker2' = [worker2 EXCEPT !.pc = "sleep"]
    /\ UNCHANGED <<next_id, clock, producers, writer, running, stats>>
    /\ UNCHANGED <<txn, health, codec>>
    /\ UNCHANGED service_vars
    /\ UNCHANGED server_vars

\* the second worker: increment_retry_count(job.job_id); in the
\* max-retries branch it blocks on the lock of its own JobQueue object
Worker2IncrementRetry ==
    /\ worker2.pc = "retry"
    /\ IF worker2.job \notin DOMAIN rows
       THEN /\ worker2' = [worker2 EXCEPT !.pc = "sleep"]
            /\ rows' = rows
       ELSE IF RetryAllowed(rows[worker2.job].retry_count,
                            rows[worker2.job].max_retries)
       THEN /\ rows' = SetRetry(rows, worker2.job)
            /\ worker2' = [worker2 EXCEPT !.pc = "sleep"]
       ELSE /\ worker2' = [worker2 EXCEPT !.pc = "blocked"]
            /\ rows' = rows
    /\ UNCHANGED <<next_id, clock, producers, writer, running, stats>>
    /\ UNCHANGED <<txn, health, codec>>
    /\ UNCHANGED service_vars
    /\ UNCHANGED server_vars

\* the second worker: await asyncio.sleep(self.poll_interval)
Worker2Sleep ==
    /\ worker2.pc = "sleep"
    /\ worker2' = [pc |-> "poll", job |-> 0]
    /\ UNCHANGED <<rows, next_id, clock, producers, writer, running, stats>>
    /\ UNCHANGED <<txn, health, codec>>
    /\ UNCHANGED service_vars
    /\ UNCHANGED server_vars

\* a producer that submits MaxSharedJobs jobs at most
add_job_shared ==
    /\ next_id < MaxSharedJobs
    /\ add_job

\* two worker processes and a producer on one database
NextWorkers ==
    \/ add_job_shared
    \/ WorkerGetNext
    \/ WorkerMarkProcessing
    \/ WorkerPrint
    \/ WorkerComplete
    \/ WorkerIncrementRetry
    \/ WorkerSleep
    \/ Worker2GetNext
    \/ Worker2MarkProcessing
    \/ Worker2Print
    \/ Worker2Complete
    \/ Worker2IncrementRetry
    \/ Worker2Sleep

SpecWorkers == Init /\ [][NextWorkers]_vars

(* ---- the worker loop as the event loop runs it ---- *)

\* the worker and a producer of finitely many jobs
NextProgress ==
    \/ add_job_shared
    \/ WorkerGetNext
    \/ WorkerMarkProcessing
    \/ WorkerPrint
    \/ WorkerComplete
    \/ WorkerIncrementRetry
    \/ WorkerSleep

SpecProgress == Init /\ [][NextProgress]_vars

\* the worker's task is run whenever it can take a step: every call of the
\* store and of the collaborator returns if it can, every sleep ends
SpecProgressLive ==
    /\ SpecProgress
    /\ WF_vars(WorkerGetNext)
    /\ WF_vars(WorkerMarkProcessing)
    /\ WF_vars(WorkerPrint)
    /\ WF_vars(WorkerComplete)
    /\ WF_vars(WorkerIncrementRetry)
    /\ WF_vars(WorkerSleep)

(* ---- PrintingService.stop ---- *)

\* stop(): self.running = False.  The service has one thread, its event
\* loop, so whoever calls stop() runs while the worker's task is suspended
\* at one of its awaits: in print_task_card or in its sleep.
stop ==
    /\ running
    /\ pc \in {"print", "sleep"}
    /\ running' = FALSE
    /\ UNCHANGED <<rows, next_id, clock, producers, writer, worker2, stats>>
    /\ UNCHANGED <<txn, health, codec>>
    /\ UNCHANGED service_vars
    /\ UNCHANGED server_vars

\* the worker, a producer, and a shutdown at any await
NextStop ==
    \/ add_job_shared
    \/ WorkerGetNext
    \/ WorkerMarkProcessing
    \/ WorkerPrint
    \/ WorkerComplete
    \/ WorkerIncrementRetry
    \/ WorkerSleep
    \/ stop

SpecStop == Init /\ [][NextStop]_vars

\* the worker's task is run whenever it can take a step
SpecStopLive ==
    /\ SpecStop
    /\ WF_vars(WorkerGetNext)
    /\ WF_vars(WorkerMarkProcessing)
    /\ WF_vars(WorkerPrint)
    /\ WF_vars(WorkerComplete)
    /\ WF_vars(WorkerIncrementRetry)
    /\ WF_vars(WorkerSleep)

(* ---- JobQueue.get_queue_stats, statement by statement ---- *)

\* SELECT status, COUNT(*) FROM print_jobs GROUP BY status.  The method
\* takes no lock and opens no transaction: each of its SELECTs reads the
\* table as committed at the moment it runs.
stats_count_by_status ==
    /\ stats.stage \in {"none", "returned"}
    /\ stats' = [stage |-> "counted",
                 counts |-> [s \in JobStatus |->
                                Cardinality({i \in DOMAIN rows :
                                                rows[i].status = s})],
                 total_jobs |-> 0]
    /\ UNCHANGED <<rows, next_id, clock, producers, writer, worker2, running>>
    /\ UNCHANGED <<txn, health, codec>>
    /\ UNCHANGED service_vars
    /\ UNCHANGED server_vars

\* SELECT COUNT(*) FROM print_jobs, and the dict is returned
stats_total_jobs ==
    /\ stats.stage = "counted"
    /\ stats' = [stats EXCEPT !.stage = "returned",
                              !.total_jobs = Cardinality(DOMAIN rows)]
    /\ UNCHANGED <<rows, next_id, clock, producers, writer, worker2, running>>
    /\ UNCHANGED <<txn, health, codec>>
    /\ UNCHANGED service_vars
    /\ UNCHANGED server_vars

\* a process that reads the statistics while producers insert and the
\* worker works
NextStats ==
    \/ add_job_few
    \/ WorkerGetNext
    \/ WorkerMarkProcessing
    \/ WorkerPrint
    \/ WorkerComplete
    \/ WorkerIncrementRetry
    \/ WorkerSleep
    \/ stats_count_by_status
    \/ stats_total_jobs

SpecStats == Init /\ [][NextStats]_vars

\* the service process is killed at any point and started again: a new
\* ServiceManager and PrintingService with a new JobQueue object (and lock)
\* on the same database file, which holds what was committed
Restart ==
    /\ pc' = "poll"
    /\ job' = 0
    /\ lock' = "free"
    /\ retry_ok' = "none"
    /\ last_cleanup' = clock
    /\ UNCHANGED <<rows, next_id, clock, attempts, fails, printed, deleted>>
    /\ UNCHANGED server_vars
    /\ UNCHANGED aux_vars

\* the worker loop with producers and ungraceful restarts
NextRestart ==
    \/ add_job
    \/ WorkerGetNext
    \/ WorkerMarkProcessing
    \/ WorkerPrint
    \/ WorkerComplete
    \/ WorkerIncrementRetry
    \/ WorkerSleep
    \/ Restart

SpecRestart == Init /\ [][NextRestart]_vars

(* ---- the methods of JobQueue statement by statement, and crashes ---- *)

\* update_job_status, the first UPDATE: the columns
update_columns(rs, i, status, error_message, now) ==
    [rs EXCEPT ![i].status = status,
               ![i].error_message = error_message,
               ![i].processed_at = IF status \in {"completed", "failed"}
                                   THEN Some(now) ELSE None]

\* update_job_status, the SELECT and the second UPDATE: job_data
update_job_data(rs, i, status, error_message, now) ==
    [rs EXCEPT ![i].job_data.status = status,
               ![i].job_data.error_message = error_message,
               ![i].job_data.processed_at =
                   IF status \in {"completed", "failed"}
                   THEN Some(now) ELSE None]

\* the number of writing statements the call t runs
Statements(t) ==
    CASE t.op = "add_job" -> 1
      [] t.op = "update_job_status" -> 2
      [] t.op = "increment_retry_count" ->
            IF RetryAllowed(t.pre[t.job_id].retry_count,
                            t.pre[t.job_id].max_retries) THEN 1 ELSE 0

\* the database as the connection of call t sees it after its next
\* writing statement
AfterStatement(t) ==
    CASE t.op = "add_job" ->
            Insert(t.image, t.job_id, PrintJob(Task("high"), t.now))
      [] t.op = "update_job_status" ->
            IF t.stmts = 0
            THEN update_columns(t.image, t.job_id, t.status,
                                t.error_message, t.now)
            ELSE update_job_data(t.image, t.job_id, t.status,
                                 t.error_message, t.now)
      [] t.op = "increment_retry_count" -> SetRetry(t.image, t.job_id)

\* the database after the whole call t
AfterCall(t) ==
    CASE t.op = "add_job" ->
            Insert(t.pre, t.job_id, PrintJob(Task("high"), t.now))
      [] t.op = "update_job_status" ->
            update_job_status(t.pre, t.job_id, t.status, t.error_message,
                              t.now)
      [] t.op = "increment_retry_count" ->
            IF Statements(t) = 1 THEN SetRetry(t.pre, t.job_id) ELSE t.pre

\* conn.commit(): the numbers of statements after which call t commits
CommitsAfter(t) == {Statements(t)}

\* a client enters a method: with self.lock, sqlite3.connect
txn_begin ==
    /\ txn = NoTxn
    /\ server_lock = "free"
    /\ \E op \in {"add_job", "update_job_status", "increment_retry_count"},
          i \in 1..MaxClientJobs, status \in JobStatus,
          error_message \in {None, Some("paper jam")} :
          /\ IF op = "add_job" THEN i = next_id + 1 ELSE i \in DOMAIN rows
          /\ op # "update_job_status"
                 => status = "pending" /\ error_message = None
          /\ error_message # None => status = "failed"
          /\ txn' = [op |-> op, job_id |-> i, status |-> status,
                     error_message |-> error_message, now |-> clock,
                     stmts |-> 0, dirty |-> FALSE, pre |-> rows,
                     image |-> rows]
    /\ server_lock' = "held"
    /\ UNCHANGED <<rows, next_id, clock, last_call, batch>>
    /\ UNCHANGED service_vars
    /\ UNCHANGED <<health, codec, ext_vars>>

\* the next INSERT or UPDATE of the method, inside its transaction
txn_statement ==
    /\ txn # NoTxn
    /\ txn.stmts < Statements(txn)
    /\ txn' = [txn EXCEPT !.stmts = @ + 1, !.dirty = TRUE,
                          !.image = AfterStatement(txn)]
    /\ UNCHANGED <<rows, next_id, clock>>
    /\ UNCHANGED server_vars
    /\ UNCHANGED service_vars
    /\ UNCHANGED <<health, codec, ext_vars>>

\* conn.commit(); after the last statement the method returns and the
\* lock is released
txn_commit ==
    /\ txn # NoTxn
    /\ txn.dirty
    /\ txn.stmts \in CommitsAfter(txn)
    /\ rows' = txn.image
    /\ next_id' = IF txn.op = "add_job" THEN txn.job_id ELSE next_id
    /\ IF txn.stmts = Statements(txn)
       THEN /\ txn' = NoTxn
            /\ server_lock' = "free"
            /\ last_call' = Returned(txn.op, txn.job_id, 1, "ok")
       ELSE /\ txn' = [txn EXCEPT !.dirty = FALSE]
            /\ UNCHANGED <<server_lock, last_call>>
    /\ UNCHANGED <<clock, batch>>
    /\ UNCHANGED service_vars
    /\ UNCHANGED <<health, codec, ext_vars>>

\* the client's process dies inside the method: what was not committed is
\* rolled back by sqlite, the lock dies with the process
Crash ==
    /\ txn # NoTxn
    /\ txn' = NoTxn
    /\ server_lock' = "free"
    /\ last_call' = Returned(txn.op, txn.job_id, 1, "crash")
    /\ UNCHANGED <<rows, next_id, clock, batch>>
    /\ UNCHANGED service_vars
    /\ UNCHANGED <<health, codec, ext_vars>>

\* a client whose process may die inside any method
NextCrash ==
    \/ txn_begin
    \/ txn_statement
    \/ txn_commit
    \/ Crash

SpecCrash == Init /\ [][NextCrash]_vars

(* ---- PrintJob objects and their persisted form ---- *)

\* the data a PrintJob is built from: each key absent or supplied, the due
\* date as a datetime (the handlers parse it) or as the empty string
JobData ==
    [title          : {None, Some("Buy milk")},
     description    : {None, Some("2% fat")},
     priority       : {None, Some("high")},
     category       : {None},
     estimated_time : {None, Some("30m")},
     due_date       : {None, Some(DT(MaxClock)), Some(EmptyStr)}]

\* job = PrintJob(job_data)
codec_new ==
    /\ codec.stage = "none"
    /\ \E data \in JobData :
          codec' = [stage |-> "job", data |-> data,
                    job |-> PrintJob(data, clock)]
    /\ UNCHANGED <<rows, next_id, clock>>
    /\ UNCHANGED service_vars
    /\ UNCHANGED server_vars
    /\ UNCHANGED <<txn, health, ext_vars>>

\* persisted = job.to_dict()
codec_to_dict ==
    /\ codec.stage = "job"
    /\ codec' = [stage |-> "dict", data |-> codec.data, job |-> codec.job,
                 dict |-> to_dict(codec.job)]
    /\ UNCHANGED <<rows, next_id, clock>>
    /\ UNCHANGED service_vars
    /\ UNCHANGED server_vars
    /\ UNCHANGED <<txn, health, ext_vars>>

\* back = PrintJob.from_dict(persisted)
codec_from_dict ==
    /\ codec.stage = "dict"
    /\ codec' = [stage |-> "back", data |-> codec.data, job |-> codec.job,
                 dict |-> codec.dict, back |-> from_dict(codec.dict)]
    /\ UNCHANGED <<rows, next_id, clock>>
    /\ UNCHANGED service_vars
    /\ UNCHANGED server_vars
    /\ UNCHANGED <<txn, health, ext_vars>>

\* the objects are dropped
codec_done ==
    /\ codec.stage = "back"
    /\ codec' = NoCodec
    /\ UNCHANGED <<rows, next_id, clock>>
    /\ UNCHANGED service_vars
    /\ UNCHANGED server_vars
    /\ UNCHANGED <<txn, health, ext_vars>>

\* jobs are built, serialized and read back
NextCodec ==
    \/ codec_new
    \/ codec_to_dict
    \/ codec_from_dict
    \/ codec_done

SpecCodec == Init /\ [][NextCodec]_vars

\* the server processes alone: requests arrive, no service is running
NextIngress ==
    \/ server_queue_print_task
    \/ fastmcp_queue_print_task
    \/ queue_print_tasks("server")
    \/ queue_print_tasks("fastmcp")
    \/ queue_print_tasks_item
    \/ queue_print_tasks_return

SpecIngress == Init /\ [][NextIngress]_vars

\* the queue alone, driven through its methods by one client
NextQueue ==
    \/ Tick
    \/ client_add_job
    \/ client_update_job_status
    \/ client_increment_retry_count
    \/ client_get_next_job
    \/ client_cleanup_old_jobs

SpecQueue == Init /\ [][NextQueue]_vars

(* ---- properties ---- *)

\* the worker's step that returns from get_next_job with a job
Claims == pc = "poll" /\ pc' = "mark"

\* the worker's step that returns from increment_retry_count, or blocks in it
RetryStep == pc = "retry" /\ pc' # "retry"

\* job i is not in the middle of the handling of an outcome
Settled(i) == ~(job = i /\ pc \in {"complete", "retry"})

\* C1: whenever get_next_job returns a job, no job in pending or retry has a
\* strictly higher priority rank than it; it returns None only when no job
\* is in pending or retry.
C1_HighestPriorityFirst ==
    [][ /\ Claims =>
            /\ job' \in Eligible(rows)
            /\ \A k \in Eligible(rows) :
                  priority_order(rows[k].priority)
                      <= priority_order(rows[job'].priority)
        /\ (pc = "poll" /\ pc' = "sleep") => Eligible(rows) = {} ]_vars

\* C1 witness: low, high, medium were inserted in that order, all three are
\* still pending, and get_next_job has returned the high one.
C1_Witness ==
    /\ pc = "mark" /\ job = 2
    /\ DOMAIN rows = {1, 2, 3}
    /\ \A i \in {1, 2, 3} : rows[i].status = "pending"
    /\ rows[1].priority = "low"
    /\ rows[2].priority = "high"
    /\ rows[3].priority = "medium"

\* C2: among the jobs in pending or retry that have the priority rank of the
\* returned job, get_next_job returns one with the earliest created_at.
C2_FifoAmongEqualPriority ==
    [][ Claims =>
          \A k \in Eligible(rows) :
              priority_order(rows[k].priority)
                  = priority_order(rows[job'].priority)
              => rows[job'].created_at <= rows[k].created_at ]_vars

\* C2 witness: get_next_job has returned a job while a later job of the same
\* priority is waiting.
C2_Witness ==
    /\ pc = "mark"
    /\ \E k \in Eligible(rows) :
          /\ k # job
          /\ rows[k].priority = rows[job].priority
          /\ rows[k].created_at > rows[job].created_at

\* C3: in every state, every stored job has 0 <= retry_count <= max_retries,
\* with max_retries = 3, in the columns and in the serialized copy.
C3_RetryCountBounded ==
    \A i \in DOMAIN rows :
        /\ rows[i].max_retries = max_retries
        /\ 0 <= rows[i].retry_count
        /\ rows[i].retry_count <= rows[i].max_retries
        /\ 0 <= rows[i].job_data.retry_count
        /\ rows[i].job_data.retry_count <= rows[i].job_data.max_retries

\* C3 witness: a job at retry_count = max_retries for which
\* increment_retry_count has been called once more (a fourth failure).
C3_Witness ==
    \E i \in DOMAIN rows :
        /\ rows[i].retry_count = max_retries
        /\ fails[i] = max_retries + 1
        /\ job = i /\ pc = "blocked"

\* C4: increment_retry_count called for a stored job whose retry_count equals
\* max_retries sets the status to failed, leaves retry_count as it is and
\* returns False.
C4_IncrementAtMaxForcesFailed ==
    [][ ( /\ RetryStep
          /\ job \in DOMAIN rows
          /\ rows[job].retry_count = rows[job].max_retries )
        => /\ job \in DOMAIN rows'
           /\ rows'[job].status = "failed"
           /\ rows'[job].retry_count = rows[job].retry_count
           /\ retry_ok' = "false" ]_vars

\* C5 as claimed: a job whose collaborator call has failed on exactly
\* max_retries attempts is in status failed with retry_count = max_retries,
\* and no job is handed to the collaborator more than max_retries times.
C5_FailedAfterMaxRetriesFailures ==
    \A i \in JobIds :
        /\ attempts[i] <= max_retries
        /\ ( /\ fails[i] = max_retries
             /\ ~printed[i]
             /\ Settled(i)
             /\ i \in DOMAIN rows )
           => /\ rows[i].status = "failed"
              /\ rows[i].retry_count = max_retries

\* C5 as amended: once the collaborator has failed on exactly max_retries
\* attempts of a job, the job is stored with retry_count = max_retries and
\* status retry, not failed; it stays so until it is claimed again, for a
\* fourth call of the collaborator.
C5_RetryAfterMaxRetriesFailures ==
    \A i \in JobIds :
        ( /\ fails[i] = max_retries
          /\ ~printed[i]
          /\ Settled(i) )
        => /\ i \in DOMAIN rows
           /\ rows[i].retry_count = max_retries
           /\ \/ rows[i].status = "retry"
              \/ /\ rows[i].status = "processing"
                 /\ job = i /\ pc = "print"
                 /\ attempts[i] = max_retries

\* C5 witness: a job is handed to the collaborator a fourth time after three
\* failures.
C5_Witness ==
    \E i \in DOMAIN rows :
        /\ attempts[i] = max_retries + 1
        /\ fails[i] >= max_retries

\* C6: a job whose collaborator call has failed max_retries - 1 times and
\* then succeeded is in status completed (until cleanup deletes it); after
\* each of the failures it is in status retry until it is claimed again.
C6_CompletedAfterTwoFailures ==
    \A i \in JobIds :
        /\ ( /\ fails[i] = max_retries - 1
             /\ printed[i]
             /\ Settled(i)
             /\ i \in DOMAIN rows )
           => /\ rows[i].status = "completed"
              /\ rows[i].job_data.status = "completed"
        /\ ( /\ fails[i] \in 1..(max_retries - 1)
             /\ ~printed[i]
             /\ Settled(i) )
           => /\ i \in DOMAIN rows
              /\ \/ rows[i].status = "retry"
                 \/ /\ rows[i].status = "processing"
                    /\ job = i /\ pc = "print"

\* C6 witness: a job completed by its third attempt, after two failures.
C6_Witness ==
    \E i \in DOMAIN rows :
        /\ fails[i] = max_retries - 1
        /\ attempts[i] = max_retries
        /\ printed[i]
        /\ rows[i].status = "completed"

\* C7: the status get_job_status reports for a job is the status that
\* get_next_job, get_queue_stats and cleanup_old_jobs act on.
C7_ReportedStatusIsStoredStatus ==
    \A i \in DOMAIN rows :
        get_job_status(rows, i)[1].status = rows[i].status

\* C8: the retry_count get_job_status reports for a job is the number of
\* failed attempts recorded for it.
C8_ReportedRetryCountIsFailures ==
    \A i \in DOMAIN rows :
        (job = i => pc \notin {"retry", "blocked"})
        => get_job_status(rows, i)[1].retry_count = fails[i]

\* C9: when an attempt has failed and increment_retry_count has returned
\* True, the job in status retry has an error_message, visible through
\* get_job_status.
C9_RetryHasErrorMessage ==
    ( /\ pc = "sleep"
      /\ retry_ok = "true"
      /\ job \in DOMAIN rows )
    => /\ rows[job].status = "retry"
       /\ rows[job].error_message # None
       /\ get_job_status(rows, job)[1].error_message # None

\* C10: in every state, for every stored job, processed_at is set if and
\* only if the status is completed or failed, in the columns and in the
\* serialized copy.
C10_ProcessedAtIffTerminal ==
    \A i \in DOMAIN rows :
        /\ rows[i].processed_at # None
              <=> rows[i].status \in {"completed", "failed"}
        /\ rows[i].job_data.processed_at # None
              <=> rows[i].job_data.status \in {"completed", "failed"}

\* C10 witness: one job is completed and stamped while another, which has
\* failed once, waits in retry without a stamp.
C10_Witness ==
    \E i, k \in DOMAIN rows :
        /\ rows[i].status = "completed"
        /\ rows[i].processed_at # None
        /\ rows[k].status = "retry"
        /\ rows[k].processed_at = None

\* the jobs whose status column is processing
Processing == {i \in DOMAIN rows : rows[i].status = "processing"}

\* the step of the health loop that runs cleanup_old_jobs
CleanupStep == last_cleanup' # last_cleanup

C12_TerminalIsFinal ==
    [][ /\ \A i \in DOMAIN rows :
              rows[i].status \in {"completed", "failed"}
              => IF i \in DOMAIN rows'
                 THEN /\ rows'[i].status = rows[i].status
                      /\ rows'[i].job_data.status = rows[i].job_data.status
                 ELSE CleanupStep
        /\ Claims => rows[job'].status \notin {"completed", "failed"} ]_vars

\* C12 witness: a job is completed, and a later get_next_job has returned
\* None.
C12_Witness ==
    /\ pc = "sleep" /\ job = 0
    /\ \E i \in DOMAIN rows :
          rows[i].status = "completed" /\ printed[i]

\* C13: cleanup_old_jobs(days) deletes exactly the jobs whose status is
\* completed or failed and whose created_at is before now - days, returns
\* their number and changes no other row; no step deletes a job whose
\* status is pending, processing or retry.
C13_CleanupDeletesOldTerminalOnly ==
    [][ /\ CleanupStep =>
              /\ (DOMAIN rows) \ (DOMAIN rows')
                    = {i \in DOMAIN rows :
                          /\ rows[i].status \in {"completed", "failed"}
                          /\ rows[i].created_at + cleanup_days < clock}
              /\ DOMAIN rows' \subseteq DOMAIN rows
              /\ \A i \in DOMAIN rows' : rows'[i] = rows[i]
              /\ deleted' = Cardinality((DOMAIN rows) \ (DOMAIN rows'))
        /\ \A i \in DOMAIN rows :
              rows[i].status \in {"pending", "processing", "retry"}
              => i \in DOMAIN rows' ]_vars

\* C13 witness: a cleanup has deleted an old completed job and has kept a
\* job of the same age that waits in retry.
C13_Witness ==
    /\ last_cleanup = clock /\ clock > cleanup_days
    /\ deleted >= 1
    /\ \E k \in DOMAIN rows :
          /\ rows[k].created_at + cleanup_days < clock
          /\ rows[k].status = "retry"

\* C18: after every failed attempt the outcome is recorded as retry or
\* failed and the worker goes on to its sleep and its next round, whatever
\* the number of earlier failures of the job.
C18_FailureNeverStopsWorker ==
    [][ RetryStep =>
          /\ pc' = "sleep"
          /\ job \in DOMAIN rows'
          /\ rows'[job].status \in {"retry", "failed"} ]_vars

(* ---- requests to the server processes ---- *)

\* a step that inserts a job
Inserts == next_id' = next_id + 1

\* the data a server process's inserting step was asked to store: the
\* current item of the batch, else the arguments of the call
Submitted == IF batch # NoBatch THEN Head(batch.tasks) ELSE last_call'.args

\* the inserting step is fastmcp's queue_print_task, which replaces
\* unlisted values
Coerces == batch = NoBatch /\ last_call'.front = "fastmcp"

\* what get_job_status must show for a submitted priority or category
\* value v with default d among the listed values ok
Shown(v, d, ok) ==
    IF v = None THEN d
    ELSE IF v[1] \notin ok /\ Coerces THEN d ELSE v[1]

\* C14: right after a job is inserted, get_job_status finds it and shows
\* status pending, retry_count 0, and the submitted title, priority and
\* category; a missing priority shows as medium and a missing category as
\* other (and so does an unlisted one where the front end replaces it).
C14_FreshJobReportedAsSubmitted ==
    [][ (Inserts /\ Submitted.title # None)
            => LET r == get_job_status(rows', next_id')
               IN  /\ r # None
                   /\ r[1].status = "pending"
                   /\ r[1].retry_count = 0
                   /\ r[1].title = Submitted.title[1]
                   /\ r[1].priority =
                          Shown(Submitted.priority, "medium",
                                {"high", "medium", "low"})
                   /\ r[1].category =
                          Shown(Submitted.category, "other", Categories)
      ]_vars

\* C14 witness: a job submitted with a title, priority high and no
\* category has been inserted and is reported with priority high and
\* category other
C14_Witness ==
    /\ last_call.op = "queue_print_task"
    /\ last_call.reply = "queued"
    /\ last_call.args.priority = Some("high")
    /\ last_call.args.category = None
    /\ LET r == get_job_status(rows, last_call.job_ids[1])
       IN  /\ r # None
           /\ r[1].priority = "high"
           /\ r[1].category = "other"
           /\ r[1].status = "pending"

\* a call of the tool op has just been answered
Answered(op) == last_call' # last_call /\ last_call'.op = op

\* C15: a queue_print_task request that carries no title is refused and
\* leaves the store as it was: no row is added, no row is changed.
C15_NoTitleNothingStored ==
    [][ (Answered("queue_print_task") /\ last_call'.args.title = None)
            => /\ last_call'.reply \in {"failed", "rejected"}
               /\ rows' = rows ]_vars

\* C16: a queue_print_tasks request whose list is empty or longer than 10
\* is refused as a whole: the reply is the refusal, no row is added or
\* changed by the call, and no loop over the tasks is started.
C16_BadBatchRejectedWhole ==
    [][ (Answered("queue_print_tasks") /\ last_call'.n \notin 1..max_batch)
            => /\ last_call'.reply \in {"no_tasks", "too_many"}
               /\ rows' = rows
               /\ next_id' = next_id
               /\ batch' = NoBatch ]_vars

\* C16 witness: a list of 11 tasks was refused while jobs of earlier
\* requests sit in the store
C16_Witness ==
    /\ last_call.op = "queue_print_tasks"
    /\ last_call.n = max_batch + 1
    /\ last_call.reply = "too_many"
    /\ batch = NoBatch
    /\ next_id >= 1

\* C17: every stored job has a priority among high, medium, low and a
\* category among the six listed ones, in its column and in its job_data.
C17_StoredPriorityCategoryListed ==
    \A i \in DOMAIN rows :
        /\ rows[i].priority \in {"high", "medium", "low"}
        /\ rows[i].job_data.priority \in {"high", "medium", "low"}
        /\ rows[i].job_data.category \in Categories
(* ---- calls of the queue's methods with job ids of the caller's choice ---- *)

\* the job id the call just answered was made with
CalledWith == last_call'.job_ids[1]

\* job ids the store has handed out and holds no more
Deleted == (1..next_id) \ DOMAIN rows

\* C19: add_job with the job_id of a stored job ends with an error, leaves
\* every row as it was, and leaves the caller's lock free.
C19_DuplicateAddChangesNothing ==
    [][ (Answered("add_job") /\ CalledWith \in DOMAIN rows)
            => /\ last_call'.reply = "IntegrityError"
               /\ rows' = rows
               /\ server_lock' = "free" ]_vars

\* C19 witness: a second add_job for a stored job that has meanwhile been
\* completed was refused, next to another stored job
C19_Witness ==
    /\ last_call.op = "add_job"
    /\ last_call.reply = "IntegrityError"
    /\ server_lock = "free"
    /\ last_call.job_ids[1] \in DOMAIN rows
    /\ rows[last_call.job_ids[1]].status = "completed"
    /\ Cardinality(DOMAIN rows) = MaxClientJobs

\* C20: update_job_status and increment_retry_count with a job id the
\* store does not hold change no row and raise nothing (increment returns
\* False), get_job_status finds nothing for that id afterwards, and no
\* step other than add_job brings a deleted job back.
C20_UnknownIdIsNoOp ==
    [][ /\ ( /\ \/ Answered("update_job_status")
                \/ Answered("increment_retry_count")
             /\ CalledWith \notin DOMAIN rows )
            => /\ rows' = rows
               /\ server_lock' = "free"
               /\ get_job_status(rows', CalledWith) = None
               /\ last_call'.reply =
                      IF last_call'.op = "update_job_status" THEN "ok"
                      ELSE "False"
        /\ \A i \in Deleted :
               i \in DOMAIN rows' => Answered("add_job")
      ]_vars

\* C20 witness: increment_retry_count was called for a job that cleanup
\* had deleted and returned False, while another job is stored
C20_Witness ==
    /\ last_call.op = "increment_retry_count"
    /\ last_call.reply = "False"
    /\ last_call.job_ids[1] \in Deleted
    /\ rows # <<>>
    /\ server_lock = "free"
(* ---- the job state machine ---- *)

\* the status changes the state machine allows
AllowedTransitions ==
    {<<"pending", "processing">>, <<"retry", "processing">>,
     <<"processing", "completed">>, <<"processing", "retry">>,
     <<"processing", "failed">>}

\* C25: whenever the status of a stored job changes, in its column or in
\* its job_data, the change is one of pending -> processing, retry ->
\* processing, processing -> completed, processing -> retry, processing ->
\* failed; no job goes from pending or retry straight to completed or failed.
C25_StatusFollowsStateMachine ==
    [][ \A i \in DOMAIN rows \cap DOMAIN rows' :
           /\ rows'[i].status # rows[i].status
                  => <<rows[i].status, rows'[i].status>> \in AllowedTransitions
           /\ rows'[i].job_data.status # rows[i].job_data.status
                  => <<rows[i].job_data.status, rows'[i].job_data.status>>
                         \in AllowedTransitions ]_vars

\* C25 witness: one job was completed after a failed attempt and another
\* is being processed again after a retry
C25_Witness ==
    \E i, k \in DOMAIN rows :
        /\ rows[i].status = "completed"
        /\ fails[i] >= 1
        /\ rows[k].status = "processing"
        /\ rows[k].retry_count >= 1
        /\ pc = "print"
(* ---- frame conditions of the queue's methods ---- *)

\* a client's call of op has just run (it answered or it wrote)
Called(op) ==
    /\ last_call'.op = op
    /\ <<last_call, rows>>' # <<last_call, rows>>

\* C26: increment_retry_count on a stored job with retry_count + 1 <=
\* max_retries returns True, adds one to retry_count and sets status retry;
\* every other field of the job and every other job stay as they were.
C26_IncrementRetryFrame ==
    [][ \A i \in DOMAIN rows :
           ( /\ Called("increment_retry_count")
             /\ CalledWith = i
             /\ rows[i].retry_count + 1 <= rows[i].max_retries )
               => /\ last_call'.reply = "True"
                  /\ rows' = [rows EXCEPT
                                 ![i].retry_count = rows[i].retry_count + 1,
                                 ![i].status = "retry"] ]_vars

\* C26 witness: the second retry of a job that carries an error text was
\* granted, next to a completed job
C26_Witness ==
    /\ last_call.op = "increment_retry_count"
    /\ last_call.reply = "True"
    /\ \E i, k \in DOMAIN rows :
          /\ last_call.job_ids = <<i>>
          /\ rows[i].retry_count = 2
          /\ rows[i].status = "retry"
          /\ rows[i].error_message # None
          /\ rows[k].status = "completed"

\* C27: get_next_job changes no row; the job it returns is still pending
\* or retry afterwards; and a call that follows another get_next_job with
\* no write in between gives the same answer (the same job wherever
\* priority and created_at single one out).
C27_GetNextJobReadOnly ==
    [][ Called("get_next_job")
            => /\ rows' = rows
               /\ last_call'.reply = "job"
                      => rows'[CalledWith].status \in {"pending", "retry"}
               /\ last_call'.reply = "None"
                      => \A k \in DOMAIN rows' :
                             rows'[k].status \notin {"pending", "retry"}
               /\ last_call.op = "get_next_job"
                      => /\ last_call'.reply = last_call.reply
                         /\ last_call.reply = "job"
                                => /\ last_call.job_ids[1] \in get_next_job(rows)
                                   /\ CalledWith \in get_next_job(rows)
                                   /\ Cardinality(get_next_job(rows)) = 1
                                          => CalledWith = last_call.job_ids[1]
      ]_vars

\* C27 witness: a second get_next_job in a row has returned a retry job
\* that is older than the pending job beside it
C27_Witness ==
    /\ last_call.op = "get_next_job"
    /\ last_call.n = 2
    /\ last_call.reply = "job"
    /\ \E i, k \in DOMAIN rows :
          /\ last_call.job_ids = <<i>>
          /\ rows[i].status = "retry"
          /\ rows[k].status = "pending"
          /\ rows[i].created_at < rows[k].created_at

\* C28: update_job_status on a stored job sets its status and error_message
\* to the arguments (no error text given: cleared) and processed_at to the
\* time of the call for completed and failed, to nothing otherwise, in the
\* columns and in job_data; retry_count, max_retries, priority, created_at
\* and every other job stay as they were.
C28_UpdateStatusFrame ==
    [][ \A i \in DOMAIN rows :
           (Called("update_job_status") /\ CalledWith = i)
               => LET a == last_call'.args
                      processed_at == IF a.status \in {"completed", "failed"}
                                      THEN Some(clock) ELSE None
                  IN  rows' = [rows EXCEPT
                         ![i].status = a.status,
                         ![i].error_message = a.error_message,
                         ![i].processed_at = processed_at,
                         ![i].job_data.status = a.status,
                         ![i].job_data.error_message = a.error_message,
                         ![i].job_data.processed_at = processed_at] ]_vars

\* C28 witness: a failed job with an error text and one retry was set back
\* to pending (error text and processed_at cleared, retry_count kept), next
\* to another stored job
C28_Witness ==
    /\ last_call.op = "update_job_status"
    /\ Cardinality(DOMAIN rows) = 2
    /\ \E i \in DOMAIN rows :
          /\ last_call.job_ids = <<i>>
          /\ last_call.args.status = "pending"
          /\ rows[i].status = "pending"
          /\ rows[i].error_message = None
          /\ rows[i].processed_at = None
          /\ rows[i].retry_count = 1

\* C29: a stored job has an error_message only while its status is retry
\* or failed, in the columns and in job_data alike.
C29_ErrorOnlyOnRetryOrFailed ==
    \A i \in DOMAIN rows :
        /\ rows[i].error_message # None
               => rows[i].status \in {"retry", "failed"}
        /\ rows[i].job_data.error_message # None
               => rows[i].job_data.status \in {"retry", "failed"}

\* C29 witness: a failed job carries an error text, and a job that had
\* one carries none after it was taken up and completed
C29_Witness ==
    \E i, k \in DOMAIN rows :
        /\ rows[i].status = "failed"
        /\ rows[i].error_message # None
        /\ rows[k].status = "completed"
        /\ rows[k].retry_count >= 1
        /\ rows[k].error_message = None
(* ---- ungraceful restarts ---- *)

\* jobs in processing that the running worker is not working on
Orphans ==
    {i \in DOMAIN rows :
        /\ rows[i].status = "processing"
        /\ ~(job = i /\ pc \in {"print", "complete", "retry", "blocked"})}

\* C21: a job left in processing by a restart stays in processing: no
\* step changes its status or deletes it, and get_next_job never hands it
\* to the restarted worker, which claims other jobs.
C21_OrphanNeverRecovered ==
    [][ \A i \in Orphans :
           /\ i \in DOMAIN rows'
           /\ rows'[i].status = "processing"
           /\ job' # i ]_vars

\* C21 witness: one job is left in processing from before a restart while
\* the restarted worker has completed a second job and prints a third
C21_Witness ==
    \E i, k \in DOMAIN rows :
        /\ i \in Orphans
        /\ rows[k].status = "completed"
        /\ pc = "print"
        /\ job \notin {i, k}
        /\ i < k
(* ---- the persisted form of a job ---- *)

\* the optional fields of a job
OptionalFields == {"description", "estimated_time", "due_date"}

\* C22: PrintJob.from_dict(job.to_dict()) has the value of job in every
\* field, and an optional field (description, estimated_time, due_date)
\* that was not supplied is absent in the persisted form.
C22_RoundTripOptionalAbsent ==
    /\ codec.stage = "back" => codec.back = codec.job
    /\ codec.stage \in {"dict", "back"}
           => \A k \in OptionalFields :
                  codec.data[k] = None => codec.dict[k] = None
(* ---- the health loop ---- *)

\* C23: while the service runs, the health loop runs a round again and
\* again, whatever the worker loop is doing.
C23_HealthLoopRunsForever == []<>(health # "ready")

\* the worker's own state
worker_vars == <<pc, job, lock, retry_ok, attempts, fails, printed>>

\* C24: a round of the health loop in which cleanup_old_jobs or
\* get_queue_stats raises ends in the loop's sleep(60) and nowhere else,
\* changes nothing of the worker loop, and the loop is ready for its next
\* round when that sleep is over.
C24_HealthErrorIsCaught ==
    [][ /\ (health = "ready" /\ health' \notin {"ready", "sleep"})
            => /\ health' = "sleep_err"
               /\ worker_vars' = worker_vars
        /\ (health = "sleep_err" /\ health' # health)
            => /\ health' = "ready"
               /\ worker_vars' = worker_vars
               /\ rows' = rows ]_vars

\* C24 witness: the cleanup was due and raised while the worker waits for
\* the collaborator; nothing was deleted, the loop sleeps
C24_Witness ==
    /\ health = "sleep_err"
    /\ clock - last_cleanup > cleanup_interval
    /\ pc = "print"
    /\ \E i \in DOMAIN rows : rows[i].status = "processing"
(* ---- crashes inside the methods of the store ---- *)

\* the process dies inside a method
Crashes == txn # NoTxn /\ txn' = NoTxn /\ last_call'.reply = "crash"

\* C30: after a crash inside add_job, update_job_status or
\* increment_retry_count the store is what it was before the call or what
\* it is after the whole call, and after a crash inside update_job_status
\* the job's status, error_message and processed_at columns agree with
\* its job_data.
C30_CrashLeavesPreOrPost ==
    [][ Crashes
            => /\ rows' \in {txn.pre, AfterCall(txn)}
               /\ txn.op = "update_job_status"
                      => LET r == rows'[txn.job_id]
                         IN  /\ r.status = r.job_data.status
                             /\ r.error_message = r.job_data.error_message
                             /\ r.processed_at = r.job_data.processed_at
      ]_vars

\* the priorities the CASE expression of get_next_job names
KnownPriorities == {"high", "medium", "low"}

\* C40: a stored job whose priority is none of high, medium, low is returned
\* by get_next_job only when no job in pending or retry has one of these
\* three priorities; it is ranked below every low-priority job.
C40_UnknownPriorityRankedLast ==
    [][ (Claims /\ rows[job'].priority \notin KnownPriorities) =>
            \A k \in DOMAIN rows :
                rows[k].status \in {"pending", "retry"} =>
                    rows[k].priority \notin KnownPriorities ]_vars

\* C40 witness: a job of priority asap was inserted first, a low one after
\* it, both are pending, and get_next_job has returned the low one.
C40_Witness ==
    /\ pc = "mark" /\ job = 2
    /\ DOMAIN rows = {1, 2}
    /\ rows[1].priority = "asap" /\ rows[1].status = "pending"
    /\ rows[2].priority = "low" /\ rows[2].status = "pending"
    /\ rows[1].created_at < rows[2].created_at

\* C36: over a job's whole lifetime the collaborator print_task_card is
\* called for it at most max_retries + 1 times (the worker is not restarted
\* between the attempts).
C36_AttemptsBounded ==
    \A i \in JobIds : attempts[i] <= max_retries + 1

\* C36 witness: print_task_card has been called max_retries + 1 times for a
\* job, the last call has returned False, and the worker is past the
\* handling of that result.
C36_Witness ==
    \E i \in DOMAIN rows :
        /\ attempts[i] = max_retries + 1
        /\ fails[i] = max_retries + 1
        /\ pc \notin {"print", "retry"}

\* C37: a job becomes completed only from processing, by the worker that
\* holds it, after print_task_card returned True for it; and there is no
\* further attempt on a job after that successful one, so the successful
\* attempt is the job's most recent attempt for as long as it is completed.
C37_CompletedOnlyAfterSuccess ==
    [][ \A i \in DOMAIN rows' :
            /\ ( /\ rows'[i].status = "completed"
                 /\ (i \in DOMAIN rows => rows[i].status # "completed") )
               => /\ i \in DOMAIN rows
                  /\ rows[i].status = "processing"
                  /\ pc = "complete" /\ job = i
                  /\ printed[i]
                  /\ attempts[i] = fails[i] + 1
            /\ printed[i] => attempts'[i] = attempts[i] ]_vars

\* C37 witness: a job is completed whose first two attempts returned False
\* and whose third returned True.
C37_Witness ==
    \E i \in DOMAIN rows :
        /\ rows[i].status = "completed"
        /\ attempts[i] = 3 /\ fails[i] = 2 /\ printed[i]

\* C34: every call of add_job, get_next_job, update_job_status,
\* increment_retry_count and cleanup_old_jobs returns and leaves the
\* JobQueue lock free: in no reachable state does a caller wait forever for
\* the lock, also not in the max-retries branch of increment_retry_count.
C34_EveryCallReleasesLock == server_lock = "free"

\* C38: a queue_print_tasks request of at most 10 tasks is enqueued as a
\* whole or not at all: when the reply is a failure, no task of the request
\* is in the store, and otherwise every task of it is.
C38_BatchAllOrNothing ==
    (last_call.op = "queue_print_tasks" /\ batch = NoBatch) =>
        /\ last_call.reply = "failed" => last_call.job_ids = <<>>
        /\ Len(last_call.job_ids) \in {0, last_call.n}

\* the fields of a row that no operation of the queue is meant to change
ContentFields ==
    {"title", "description", "priority", "category", "estimated_time",
     "due_date", "created_at", "max_retries"}

\* producer p's add_job call returns
AddReturns(p) == producers[p].stage = "inserted" /\ producers'[p].stage = "idle"

\* C31: when an add_job call returns, its job is in the store with the
\* fields of the PrintJob it was called with, status pending, and every row
\* that was in the store is still there unchanged; and whatever steps of
\* other producers, of the worker and of cleanup are interleaved, a stored
\* job keeps the fields it was inserted with, in its columns and in its
\* job_data, until cleanup deletes it as a completed or failed job.
C31_NoInsertLost ==
    [][ /\ \A p \in Producers :
              AddReturns(p) =>
                  LET i == producers[p].job_id
                      j == producers[p].job
                  IN  /\ i \in DOMAIN rows'
                      /\ \A f \in ContentFields \ {"due_date"} :
                            rows'[i][f] = j[f]
                      /\ rows'[i].status = "pending"
                      /\ rows'[i].job_data.priority = j.priority
                      /\ rows'[i].job_data.title = j.title
                      /\ \A k \in DOMAIN rows :
                            k \in DOMAIN rows' /\ rows'[k] = rows[k]
        /\ \A k \in DOMAIN rows :
              IF k \in DOMAIN rows'
              THEN /\ \A f \in ContentFields : rows'[k][f] = rows[k][f]
                   /\ \A f \in ContentFields :
                         rows'[k].job_data[f] = rows[k].job_data[f]
              ELSE /\ CleanupStep
                   /\ rows[k].status \in {"completed", "failed"} ]_vars

\* C31 witness: the producer of job 2 built its job first, the producer of
\* job 3 then built, inserted and committed its job while the first was
\* still on its way, and the worker has written to job 1 in between; job 3
\* is in the store and the producer of job 2 now holds the write lock.
C31_Witness ==
    /\ DOMAIN rows = {1, 3}
    /\ rows[1].status \in {"processing", "retry", "completed"}
    /\ rows[3].status = "pending"
    /\ \E p \in Producers :
          /\ producers[p].stage = "inserted"
          /\ producers[p].job_id = 2
          /\ writer = p
          /\ producers[p].job.priority # rows[3].priority

\* C39: in every dict get_queue_stats returns, total_jobs is the sum of the
\* counts per status, also when jobs are inserted or deleted while the call
\* runs.
C39_TotalIsSumOfCounts ==
    stats.stage = "returned" =>
        stats.total_jobs = stats.counts["pending"] + stats.counts["processing"]
                             + stats.counts["completed"] + stats.counts["failed"]
                             + stats.counts["retry"]

\* the second worker's step that returns from get_next_job
Claims2 == worker2.pc = "poll" /\ worker2'.pc # "poll"

\* C32: get_next_job does not claim: the call changes no row, so the job it
\* returned is still pending or retry until the caller's separate
\* update_job_status; and a worker that calls get_next_job while the other
\* worker holds a job it has obtained and not yet marked, that job being
\* the only one in pending or retry, obtains the same job.
C32_ClaimIsNotAtomic ==
    [][ Claims2 =>
          /\ rows' = rows
          /\ worker2'.pc = "mark" =>
                rows'[worker2'.job].status \in {"pending", "retry"}
          /\ ( /\ pc = "mark"
               /\ {i \in DOMAIN rows : rows[i].status \in {"pending", "retry"}}
                      = {job} )
             => (worker2'.pc = "mark" /\ worker2'.job = job) ]_vars

\* C32 witness: both workers obtained the same job before either marked it,
\* both have marked it, and both are in print_task_card for it at the same
\* time; no call for it has returned yet.
C32_Witness ==
    /\ pc = "print" /\ worker2.pc = "print"
    /\ job = worker2.job
    /\ rows[job].status = "processing"
    /\ attempts[job] = 0

\* C35: with finitely many jobs submitted and every print_task_card call
\* returning, every job in the store eventually is completed or failed (so
\* it was claimed, and no job that keeps failing holds the others back for
\* ever).
C35_EveryJobEventuallySettled ==
    \A i \in 1..MaxSharedJobs :
        [](i \in DOMAIN rows =>
              <>(/\ i \in DOMAIN rows
                 /\ rows[i].status \in {"completed", "failed"}))

\* C33: when stop() is called while a job is being processed, the attempt
\* runs to its outcome, the job's status is moved out of processing (to
\* completed, retry or failed), and then the worker loop exits.
C33_StopLetsAttemptFinish ==
    [](( ~running /\ pc = "print" ) =>
          <>( /\ pc = "stopped"
              /\ \A i \in DOMAIN rows : rows[i].status # "processing" ))

====
